---- MODULE Spec2Model ----
(***************************************************************************)
(* A model of the news ingestion pipeline (backend/news_fetcher.py), the   *)
(* vector index (backend/vector_store.py), the recommender                 *)
(* (backend/recommender.py) and the request handlers (backend/main.py).    *)
(*                                                                         *)
(* Strings are sequences of one-character strings.  A directory is a       *)
(* function from file names to file contents.  A file content is either an *)
(* article (a function from field names to values, the JSON object) or     *)
(* Truncated: what open(name, 'w') leaves until json.dump has finished.    *)
(***************************************************************************)
EXTENDS Integers, Sequences, FiniteSets, TLC

\* ------------------------------------------------------------------ bounds
\* Entries one fetch cycle reads from the feeds, at most.
MaxFeedLen == 2
\* Operations started (fetch cycles, repairs, requests), at most; the clock.
MaxOps == 2
\* Process kills, at most.
MaxCrashes == 1

\* ----------------------------------------------------------------- strings
\* The content of a file that was opened for writing and not written out
Truncated == [truncated |-> TRUE]

JsonExt == <<".", "j", "s", "o", "n">>

\* filename.endswith('.json')
EndsWithJson(fn) ==
    /\ Len(fn) >= Len(JsonExt)
    /\ SubSeq(fn, Len(fn) - Len(JsonExt) + 1, Len(fn)) = JsonExt

\* f"{dir}/{article['id']}.json": the name inside the directory
FileName(id) == id \o JsonExt

\* filename[:-5]
StripExt(fn) == SubSeq(fn, 1, Len(fn) - 5)

\* hashlib.md5(content).hexdigest(), taken as collision-free: the digest is
\* represented by the bytes it digests, marked as a digest.
md5_hexdigest(content) == <<"#">> \o content

\* NewsFetcher.generate_article_id
generate_article_id(title, date) == md5_hexdigest(title \o date)

\* ------------------------------------------------------------------- texts
\* A text is a sequence of sentences; a sentence is [chars, words]: its length
\* in characters and its number of whitespace-separated words.  Sentences of a
\* text are separated by single spaces.
RECURSIVE SumChars(_), SumWords(_)
SumChars(t) == IF t = <<>> THEN 0 ELSE Head(t).chars + SumChars(Tail(t))
SumWords(t) == IF t = <<>> THEN 0 ELSE Head(t).words + SumWords(Tail(t))

\* len(text)
TextLen(t) == IF t = <<>> THEN 0 ELSE SumChars(t) + (Len(t) - 1)
\* len(text.split())
WordCount(t) == SumWords(t)

\* sorted(seq, key=...): Python's sort is stable.  before[i][j] is
\* key(seq[i]) < key(seq[j]); an element's rank counts the elements that sort
\* before it and the equal ones that stood before it.
SortRank(before, i) ==
    1 + Cardinality({j \in DOMAIN before :
            \/ before[j][i]
            \/ (~before[i][j] /\ j < i)})
StableSort(s, before) ==
    [r \in 1..Len(s) |-> s[CHOOSE i \in 1..Len(s) : SortRank(before, i) = r]]

\* score = 1.0 / (i + 1) + (0.5 if 10 <= words <= 30), for the sentence at
\* position p = i + 1, as the fraction ScoreNum / ScoreDen
Bonus(sentence) == IF 10 <= sentence.words /\ sentence.words <= 30 THEN 1 ELSE 0
ScoreNum(p, sentence) == 2 + Bonus(sentence) * p
ScoreDen(p) == 2 * p
ScoreGreater(p, q, sentences) ==
    ScoreNum(p, sentences[p]) * ScoreDen(q) > ScoreNum(q, sentences[q]) * ScoreDen(p)

\* sentences.index(s): the first position holding an equal sentence
IndexOf(sentences, s) ==
    CHOOSE p \in 1..Len(sentences) :
        /\ sentences[p] = s
        /\ \A q \in 1..(p - 1) : sentences[q] # s

\* NewsFetcher._generate_summary; sent_tokenize(text) is the text's sequence
\* of sentences.  The result is again a text (the sentences joined by spaces).
_generate_summary(text, max_sentences) ==
    LET sentences == text
        positions == [p \in 1..Len(sentences) |-> p]
        n == Len(sentences)
        byScore == StableSort(positions,
                       [p \in 1..n |-> [q \in 1..n |-> ScoreGreater(p, q, sentences)]])
        top_sentences == SubSeq(byScore, 1, max_sentences)
        m == Len(top_sentences)
        ordered == StableSort(top_sentences,
                       [i \in 1..m |-> [j \in 1..m |->
                           IndexOf(sentences, sentences[top_sentences[i]])
                           < IndexOf(sentences, sentences[top_sentences[j]])]])
    IN  IF Len(sentences) <= max_sentences THEN text
        ELSE [i \in 1..Len(ordered) |-> sentences[ordered[i]]]

\* round(n / d) of Python 3: to the nearest integer, a half to the even one
PyRound(n, d) ==
    LET q == n \div d
        r == n % d
    IN  IF 2 * r < d THEN q
        ELSE IF 2 * r > d THEN q + 1
        ELSE IF q % 2 = 0 THEN q ELSE q + 1

Max(a, b) == IF a >= b THEN a ELSE b

\* ---------------------------------------------------------------- articles
Has(a, k) == k \in DOMAIN a
Put(a, k, v) == [x \in DOMAIN a \cup {k} |-> IF x = k THEN v ELSE a[x]]

\* urlparse(url).netloc for the configured feeds (config.py RSS_FEEDS)
Netloc(url) ==
    CASE url = "https://feeds.feedburner.com/TechCrunch/" -> "feeds.feedburner.com"
      [] url = "https://www.wired.com/feed/rss" -> "www.wired.com"
      [] url = "https://www.theverge.com/rss/index.xml" -> "www.theverge.com"
      [] OTHER -> ""

\* article.get(k, default)
Get(a, k, default) == IF Has(a, k) THEN a[k] ELSE default

\* urlparse(url) of an article's source: it raises ValueError for a bracket
\* that is not closed ("Invalid IPv6 URL")
BadUrl == "http://[feeds"
UrlParses(url) == url # BadUrl

\* The exception a step of the try block (lines 98-129) raises for this
\* article, "" when no step raises: content, link and source are strings
\* (fetch_articles builds them so), _fetch_full_content and _generate_summary
\* catch what they raise, urlparse (line 109) does not.
TryRaises(article) ==
    IF Has(article, "source") /\ article.source # "" /\ ~UrlParses(article.source)
    THEN "Invalid IPv6 URL"
    ELSE ""

\* As ReadingTime, without the max(1, ...)
ReadingTime_NoFloor(word_count) == PyRound(word_count, 200)

\* line 123: max(1, round(word_count / 200))
ReadingTime(word_count) == Max(1, PyRound(word_count, 200))

\* NewsFetcher._process_article, the try block, lines 98-129.  page is what
\* _fetch_full_content returns when it is called (<<>> stands for None and for
\* ''), now is utcnow().
_process_article_try(article, page, now) ==
    LET fetched == IF TextLen(Get(article, "content", <<>>)) < 500
                      /\ Get(article, "link", "") # ""
                   THEN page ELSE <<>>
        a1 == IF fetched # <<>> THEN Put(article, "full_content", fetched)
              ELSE article
        a2 == Put(a1, "domain",
                  IF Has(article, "source") /\ article.source # ""
                  THEN Netloc(article.source) ELSE "unknown")
        a3 == Put(a2, "summary",
                  IF Has(a2, "full_content")
                  THEN _generate_summary(a2.full_content, 3)
                  ELSE Get(a2, "content", <<>>))
        content == IF Has(a3, "full_content") THEN a3.full_content
                   ELSE Get(a3, "content", <<>>)
        a4 == Put(a3, "reading_time_minutes", ReadingTime(WordCount(content)))
    IN  Put(Put(a4, "processed", TRUE), "processed_timestamp", now)

\* As _process_article_except, without line 133 (article['processed'] = True)
_process_article_except_NoMark(article, e, now) ==
    [raised |-> FALSE,
     value |-> Put(Put(article, "processed_timestamp", now), "processing_error", e)]

\* As _process_article_except, with the exception raised again
_process_article_except_Reraises(article, e, now) == [raised |-> TRUE, error |-> e]

\* NewsFetcher._process_article, the except block, lines 130-136: the article
\* it was given is marked and returned, not the copy the try block worked on
_process_article_except(article, e, now) ==
    [raised |-> FALSE,
     value |-> Put(Put(Put(article, "processed", TRUE),
                       "processed_timestamp", now),
                   "processing_error", e)]

\* NewsFetcher._process_article, lines 96-136: what the call gives
_process_article_outcome(article, page, now) ==
    IF TryRaises(article) # ""
    THEN _process_article_except(article, TryRaises(article), now)
    ELSE [raised |-> FALSE, value |-> _process_article_try(article, page, now)]

\* processed_article = self._process_article(article)
_process_article(article, page, now) ==
    _process_article_outcome(article, page, now).value

\* --------------------------------------------------------------- the feeds
\* config.py RSS_FEEDS
RSS_FEEDS == << "https://feeds.feedburner.com/TechCrunch/",
               "https://www.wired.com/feed/rss",
               "https://www.theverge.com/rss/index.xml" >>

ShortText == << [chars |-> 40, words |-> 8] >>
LongText == << [chars |-> 300, words |-> 150], [chars |-> 299, words |-> 150] >>
PageText == << [chars |-> 60, words |-> 12], [chars |-> 20, words |-> 4],
               [chars |-> 90, words |-> 20], [chars |-> 1500, words |-> 264] >>

\* The entries the feeds may hold: what feedparser gives for each (feed is the
\* index of the feed in RSS_FEEDS; hasTitle is whether entry.title exists;
\* published, summary and link are entry.get(..., '')).
EntryA == [feed |-> 1, hasTitle |-> TRUE, title |-> <<"a", "b">>,
           published |-> <<"c">>, summary |-> ShortText, link |-> "http://a"]
EntryB == [feed |-> 2, hasTitle |-> TRUE, title |-> <<"a">>,
           published |-> <<"b", "c">>, summary |-> LongText, link |-> "http://b"]
\* Published when EntryA was, under another title
EntryC == [feed |-> 3, hasTitle |-> TRUE, title |-> <<"b">>,
           published |-> <<"c">>, summary |-> <<>>, link |-> ""]
EntryNoTitle == [feed |-> 3, hasTitle |-> FALSE, title |-> <<>>,
                 published |-> <<"c">>, summary |-> ShortText, link |-> "http://d"]
Entries == {EntryA, EntryB, EntryC, EntryNoTitle}

\* What one pass over the feeds reads: the feeds in order, each with its entries
FeedReads ==
    {q \in UNION {[1..n -> Entries] : n \in 0..MaxFeedLen} :
        \A i \in 1..Len(q), j \in 1..Len(q) : i < j => q[i].feed <= q[j].feed}

\* What _fetch_full_content may return for a link
Pages == {<<>>, PageText}

\* ------------------------------------------------------------------- state
VARIABLES
    raw,                \* data/raw_news: file name -> content
    proc,               \* data/processed_news: file name -> content
    op,                 \* the running operation, "idle" when none
    pc,                 \* the control point inside it
    queue,              \* fetch_articles: the entries still to read
    article,            \* the local `article`
    processed_article,  \* the local `processed_article`
    all_articles,       \* fetch_articles: the list it returns
    missing_ids,        \* process_missing_articles: raw_ids - processed_ids
    todo,               \* process_missing_articles: the ids still to visit
    raw_articles,       \* process_unprocessed_articles: the articles still to visit
    processed_count,    \* the local counter of the running repair
    sync_count,         \* sync_raw_processed: its local processed_count
    ret,                \* what the last operation returned
    now,                \* the clock: operations started so far
    crashes,            \* process kills so far
    failed,             \* history: ids whose load failed in the running repair
    orphaned,           \* history: ids a kill left between the two writes, and where
    before,             \* history: the file names when the entry was taken
    ingested,           \* history: the (title, published) pairs ingested so far
    attempts,           \* history: id -> _process_article calls in the running operation
    vectors,            \* vector_store.index: the stored vectors, in order
    article_ids,        \* vector_store.article_ids
    result,             \* what the last call of the index or the recommender gave
    request,            \* the request being served, if any
    response,           \* the response to the last request
    inflight,           \* the requests the event loop holds, each with its handler's position
    id_args,            \* generate_article_id: two (title, date) pairs
    id_out,             \* generate_article_id: the identifiers of the two
    fn_args,            \* a function called on its own: its arguments
    fn_out              \* a function called on its own: what it gave

storeVars == <<raw, proc>>
ctlVars == <<op, pc, now, crashes, ret>>
fetchVars == <<queue, all_articles>>
localVars == <<article, processed_article>>
repairVars == <<missing_ids, todo, raw_articles, processed_count, sync_count>>
histVars == <<failed, orphaned, before, ingested, attempts>>
indexVars == <<vectors, article_ids, result>>
apiVars == <<request, response, inflight>>
idVars == <<id_args, id_out, fn_args, fn_out>>
outside == <<indexVars, apiVars, idVars>>
vars == <<storeVars, ctlVars, fetchVars, localVars, repairVars, histVars,
          indexVars, apiVars, idVars>>

NoArticle == [none |-> TRUE]
NoFiles == [raw |-> {}, proc |-> {}, again |-> FALSE]
EmptyDir == [fn \in {} |-> Truncated]
\* No call of _process_article yet
NoAttempts == [id \in {} |-> 0]
\* One more call of _process_article for this id
Attempt(counts, id) ==
    [i \in DOMAIN counts \cup {id} |->
        IF i = id THEN (IF id \in DOMAIN counts THEN counts[id] ELSE 0) + 1
        ELSE counts[i]]

\* As WriteFile, in a directory emptied first
WriteFile_EmptiesDir(dir, fn, content) ==
    [f \in {fn} |-> content]

\* open(name, 'w') ... json.dump(...): the file afterwards
WriteFile(dir, fn, content) ==
    [f \in DOMAIN dir \cup {fn} |-> IF f = fn THEN content ELSE dir[f]]

Readable(dir, fn) == fn \in DOMAIN dir /\ dir[fn] # Truncated

\* NewsFetcher.get_raw_article_ids / get_processed_article_ids
ArticleIds(dir) == {StripExt(fn) : fn \in {f \in DOMAIN dir : EndsWithJson(f)}}
get_raw_article_ids == ArticleIds(raw)
get_processed_article_ids == ArticleIds(proc)

Pair(title, published) == <<title, published>>

\* The state after construction (main.py lines 8-11): the directories exist
\* and are empty, the index is empty, nothing runs
Constructed ==
    /\ raw = EmptyDir
    /\ proc = EmptyDir
    /\ op = "idle"
    /\ pc = "idle"
    /\ queue = <<>>
    /\ article = NoArticle
    /\ processed_article = NoArticle
    /\ all_articles = <<>>
    /\ missing_ids = {}
    /\ todo = {}
    /\ raw_articles = <<>>
    /\ processed_count = 0
    /\ sync_count = 0
    /\ ret = [kind |-> "none"]
    /\ now = 0
    /\ crashes = 0
    /\ failed = {}
    /\ orphaned = {}
    /\ before = NoFiles
    /\ ingested = {}
    /\ attempts = NoAttempts
    /\ vectors = <<>>
    /\ article_ids = <<>>
    /\ result = [call |-> "none"]
    /\ request = [kind |-> "none"]
    /\ response = [status |-> 0, kind |-> "none"]
    /\ inflight = [r \in {} |-> NoArticle]

NoIds == [none |-> TRUE]
NoCall == [none |-> TRUE]

Init ==
    /\ Constructed
    /\ id_args = NoIds
    /\ id_out = NoIds
    /\ fn_args = NoCall
    /\ fn_out = NoCall

\* ----------------------------------------------------- get_stored_articles
CharRank(c) == CASE c = "a" -> 1 [] c = "b" -> 2 [] c = "c" -> 3 [] OTHER -> 0

\* s < t for Python strings
RECURSIVE StrLess(_, _)
StrLess(s, t) ==
    IF t = <<>> THEN FALSE
    ELSE IF s = <<>> THEN TRUE
    ELSE IF Head(s) = Head(t) THEN StrLess(Tail(s), Tail(t))
    ELSE CharRank(Head(s)) < CharRank(Head(t))

DateOf(a) == IF Has(a, "date") THEN a.date ELSE <<>>

Perms(S) ==
    {q \in [1..Cardinality(S) -> S] : \A x \in S : \E i \in DOMAIN q : q[i] = x}

\* As get_stored_articles, with the read given up at the first file that
\* does not load
get_stored_articles_AbortsOnBadFile(dir) ==
    {LET upto == IF \E i \in 1..Len(l) : dir[l[i]] = Truncated
                 THEN (CHOOSE i \in 1..Len(l) :
                          /\ dir[l[i]] = Truncated
                          /\ \A j \in 1..(i - 1) : dir[l[j]] # Truncated) - 1
                 ELSE Len(l)
         articles == [i \in 1..upto |-> dir[l[i]]]
         n == Len(articles)
     IN  StableSort(articles,
             [i \in 1..n |-> [j \in 1..n |->
                 StrLess(DateOf(articles[j]), DateOf(articles[i]))]]) :
        l \in Perms({f \in DOMAIN dir : EndsWithJson(f)})}

\* NewsFetcher.get_stored_articles: the outcomes it may have, one for each
\* order os.listdir may give the .json files in (l).  A file that does not
\* load is logged and passed over (lines 229-233); the articles read are
\* sorted by date, descending (line 237: sorted is stable, with reverse=True
\* too).
get_stored_articles(dir) ==
    {LET articles == SelectSeq([i \in 1..Len(l) |-> dir[l[i]]],
                               LAMBDA c : c # Truncated)
         n == Len(articles)
     IN  StableSort(articles,
             [i \in 1..n |-> [j \in 1..n |->
                 StrLess(DateOf(articles[j]), DateOf(articles[i]))]]) :
        l \in Perms({f \in DOMAIN dir : EndsWithJson(f)})}

\* ---------------------------------------------------------- fetch_articles
Idle == op = "idle" /\ pc = "idle"

ResetLocals ==
    /\ queue' = <<>>
    /\ article' = NoArticle
    /\ processed_article' = NoArticle
    /\ all_articles' = <<>>
    /\ missing_ids' = {}
    /\ todo' = {}
    /\ raw_articles' = <<>>
    /\ processed_count' = 0
    /\ sync_count' = 0

\* lines 174-179: the call, and what the feeds hold during it
StartFetch ==
    /\ Idle
    /\ now < MaxOps
    /\ \E q \in FeedReads : queue' = q
    /\ op' = "fetch"
    /\ pc' = "entry"
    /\ now' = now + 1
    /\ all_articles' = <<>>
    /\ attempts' = NoAttempts
    /\ UNCHANGED <<storeVars, crashes, ret, localVars, repairVars,
                   failed, orphaned, before, ingested>>
    /\ UNCHANGED outside

\* lines 183, 208-210: entry.title raises AttributeError; the entry is skipped
FetchSkipEntry ==
    /\ op = "fetch" /\ pc = "entry"
    /\ queue # <<>>
    /\ ~Head(queue).hasTitle
    /\ queue' = Tail(queue)
    /\ UNCHANGED <<storeVars, ctlVars, all_articles, localVars, repairVars, histVars>>
    /\ UNCHANGED outside

\* As NewArticle, with the id taken from the title and the fetch time
NewArticle_IdFromFetchTime(entry, t) ==
    [id |-> generate_article_id(entry.title, <<ToString(t)>>),
     title |-> entry.title,
     content |-> entry.summary,
     date |-> entry.published,
     link |-> entry.link,
     source |-> RSS_FEEDS[entry.feed],
     categories |-> <<>>,
     fetch_timestamp |-> t,
     processed |-> FALSE]

\* lines 183-195
NewArticle(entry, t) ==
    [id |-> generate_article_id(entry.title, entry.published),
     title |-> entry.title,
     content |-> entry.summary,
     date |-> entry.published,
     link |-> entry.link,
     source |-> RSS_FEEDS[entry.feed],
     categories |-> <<>>,
     fetch_timestamp |-> t,
     processed |-> FALSE]

\* lines 183-198, 56-57: the article is built and its raw file opened
FetchRawOpen ==
    /\ op = "fetch" /\ pc = "entry"
    /\ queue # <<>>
    /\ Head(queue).hasTitle
    /\ LET a == NewArticle(Head(queue), now)
       IN  /\ article' = a
           /\ raw' = WriteFile(raw, FileName(a.id), Truncated)
           /\ before' = [raw |-> DOMAIN raw, proc |-> DOMAIN proc,
                          again |-> Pair(a.title, a.date) \in ingested]
    /\ pc' = "raw_open"
    /\ UNCHANGED <<proc, op, now, crashes, ret, fetchVars, processed_article,
                   repairVars, failed, orphaned, ingested, attempts>>
    /\ UNCHANGED outside

\* line 58
FetchRawDump ==
    /\ op = "fetch" /\ pc = "raw_open"
    /\ raw' = WriteFile(raw, FileName(article.id), article)
    /\ pc' = "raw_saved"
    /\ UNCHANGED <<proc, op, now, crashes, ret, fetchVars, localVars, repairVars,
                   histVars>>
    /\ UNCHANGED outside

\* processed_article = self._process_article(article)
Enrich(page) ==
    /\ processed_article' = _process_article(article, page, now)
    /\ attempts' = Attempt(attempts, article.id)
    /\ UNCHANGED article

\* line 201
FetchProcess ==
    /\ op = "fetch" /\ pc = "raw_saved"
    /\ \E page \in Pages : Enrich(page)
    /\ pc' = "processed"
    /\ UNCHANGED <<storeVars, op, now, crashes, ret, fetchVars, repairVars,
                   failed, orphaned, before, ingested>>
    /\ UNCHANGED outside

\* lines 202, 62-63
FetchProcOpen ==
    /\ op = "fetch" /\ pc = "processed"
    /\ proc' = WriteFile(proc, FileName(processed_article.id), Truncated)
    /\ pc' = "proc_open"
    /\ UNCHANGED <<raw, op, now, crashes, ret, fetchVars, localVars, repairVars,
                   histVars>>
    /\ UNCHANGED outside

\* lines 64, 204
FetchProcDump ==
    /\ op = "fetch" /\ pc = "proc_open"
    /\ proc' = WriteFile(proc, FileName(processed_article.id), processed_article)
    /\ all_articles' = Append(all_articles, processed_article)
    /\ ingested' = ingested \cup {Pair(article.title, article.date)}
    /\ pc' = "ingested"
    /\ UNCHANGED <<raw, op, now, crashes, ret, queue, localVars, repairVars,
                   failed, orphaned, before, attempts>>
    /\ UNCHANGED outside

\* line 207, and back to line 181
FetchSleep ==
    /\ op = "fetch" /\ pc = "ingested"
    /\ queue' = Tail(queue)
    /\ article' = NoArticle
    /\ processed_article' = NoArticle
    /\ pc' = "entry"
    /\ UNCHANGED <<storeVars, op, now, crashes, ret, all_articles, repairVars,
                   histVars>>
    /\ UNCHANGED outside

\* lines 295-302: process_missing_articles is entered
EnterMissing ==
    /\ missing_ids' = get_raw_article_ids \ get_processed_article_ids
    /\ todo' = get_raw_article_ids \ get_processed_article_ids
    /\ processed_count' = 0
    /\ failed' = {}
    /\ pc' = "m_loop"

\* line 217
FetchCallMissing ==
    /\ op = "fetch" /\ pc = "entry"
    /\ queue = <<>>
    /\ EnterMissing
    /\ UNCHANGED <<storeVars, op, now, crashes, ret, fetchVars, localVars,
                   raw_articles, sync_count, orphaned, before, ingested, attempts>>
    /\ UNCHANGED outside

\* ------------------------------------------------ process_missing_articles
StartMissing ==
    /\ Idle
    /\ now < MaxOps
    /\ op' = "missing"
    /\ now' = now + 1
    /\ attempts' = NoAttempts
    /\ EnterMissing
    /\ UNCHANGED <<storeVars, crashes, ret, fetchVars, localVars, raw_articles,
                   sync_count, orphaned, before, ingested>>
    /\ UNCHANGED outside

\* lines 304-308: the next missing id (a set is visited in any order); its raw
\* file loads
MissingLoad ==
    /\ pc = "m_loop"
    /\ \E id \in todo :
          /\ Readable(raw, FileName(id))
          /\ article' = raw[FileName(id)]
          /\ todo' = todo \ {id}
    /\ pc' = "m_loaded"
    /\ UNCHANGED <<storeVars, op, now, crashes, ret, fetchVars, processed_article,
                   missing_ids, raw_articles, processed_count, sync_count, histVars>>
    /\ UNCHANGED outside

\* lines 307-308 raise (the file does not parse); lines 317-329: the handler
\* loads the same file again, which raises again, and only logs
MissingLoadFails ==
    /\ pc = "m_loop"
    /\ \E id \in todo :
          /\ ~Readable(raw, FileName(id))
          /\ todo' = todo \ {id}
          /\ failed' = failed \cup {id}
    /\ UNCHANGED <<storeVars, ctlVars, fetchVars, localVars, missing_ids,
                   raw_articles, processed_count, sync_count, orphaned, before,
                   ingested, attempts>>
    /\ UNCHANGED outside

\* line 311
MissingProcess ==
    /\ pc = "m_loaded"
    /\ \E page \in Pages : Enrich(page)
    /\ pc' = "m_processed"
    /\ UNCHANGED <<storeVars, op, now, crashes, ret, fetchVars, repairVars,
                   failed, orphaned, before, ingested>>
    /\ UNCHANGED outside

\* lines 312, 62-63
MissingProcOpen ==
    /\ pc = "m_processed"
    /\ proc' = WriteFile(proc, FileName(processed_article.id), Truncated)
    /\ pc' = "m_proc_open"
    /\ UNCHANGED <<raw, op, now, crashes, ret, fetchVars, localVars, repairVars,
                   histVars>>
    /\ UNCHANGED outside

\* As MissingProcDump, with the article saved by _save_raw_article
MissingProcDump_SavesToRaw ==
    /\ pc = "m_proc_open"
    /\ raw' = WriteFile(raw, FileName(processed_article.id), processed_article)
    /\ processed_count' = processed_count + 1
    /\ article' = NoArticle
    /\ processed_article' = NoArticle
    /\ pc' = "m_loop"
    /\ UNCHANGED <<proc, op, now, crashes, ret, fetchVars, missing_ids, todo,
                   raw_articles, sync_count, histVars>>
    /\ UNCHANGED outside

\* lines 64, 313-316
MissingProcDump ==
    /\ pc = "m_proc_open"
    /\ proc' = WriteFile(proc, FileName(processed_article.id), processed_article)
    /\ processed_count' = processed_count + 1
    /\ article' = NoArticle
    /\ processed_article' = NoArticle
    /\ pc' = "m_loop"
    /\ UNCHANGED <<raw, op, now, crashes, ret, fetchVars, missing_ids, todo,
                   raw_articles, sync_count, histVars>>
    /\ UNCHANGED outside

\* line 331: the loop is over
MissingReturn ==
    /\ pc = "m_loop"
    /\ todo = {}
    /\ pc' = "m_done"
    /\ UNCHANGED <<storeVars, op, now, crashes, ret, fetchVars, localVars,
                   repairVars, histVars>>
    /\ UNCHANGED outside

\* line 219: fetch_articles returns all_articles
FetchReturn ==
    /\ op = "fetch" /\ pc = "m_done"
    /\ request.kind = "none"
    /\ ret' = [kind |-> "fetch", value |-> all_articles]
    /\ op' = "idle"
    /\ pc' = "idle"
    /\ ResetLocals
    /\ UNCHANGED <<storeVars, now, crashes, histVars>>
    /\ UNCHANGED outside

\* process_missing_articles, called by itself, returns processed_count
MissingDone ==
    /\ op = "missing" /\ pc = "m_done"
    /\ ret' = [kind |-> "missing", value |-> processed_count]
    /\ op' = "idle"
    /\ pc' = "idle"
    /\ ResetLocals
    /\ UNCHANGED <<storeVars, now, crashes, histVars>>
    /\ UNCHANGED outside

\* -------------------------------------------- process_unprocessed_articles
\* lines 267-268
EnterUnprocessed ==
    /\ \E l \in get_stored_articles(raw) : raw_articles' = l
    /\ processed_count' = 0
    /\ pc' = "u_loop"

StartUnprocessed ==
    /\ Idle
    /\ now < MaxOps
    /\ op' = "unprocessed"
    /\ now' = now + 1
    /\ attempts' = NoAttempts
    /\ EnterUnprocessed
    /\ UNCHANGED <<storeVars, crashes, ret, fetchVars, localVars, missing_ids,
                   todo, sync_count, failed, orphaned, before, ingested>>
    /\ UNCHANGED outside

\* lines 270-274: the next raw article; one whose flag is set is passed over
UnprocessedVisit ==
    /\ pc = "u_loop"
    /\ raw_articles # <<>>
    /\ raw_articles' = Tail(raw_articles)
    /\ LET a == Head(raw_articles)
       IN  IF Has(a, "processed") /\ a.processed
           THEN UNCHANGED <<pc, localVars, attempts>>
           ELSE /\ \E page \in Pages :
                     processed_article' = _process_article(a, page, now)
                /\ attempts' = Attempt(attempts, a.id)
                /\ article' = a
                /\ pc' = "u_processed"
    /\ UNCHANGED <<storeVars, op, now, crashes, ret, fetchVars, missing_ids, todo,
                   processed_count, sync_count, failed, orphaned, before, ingested>>
    /\ UNCHANGED outside

\* lines 275, 62-63
UnprocessedProcOpen ==
    /\ pc = "u_processed"
    /\ proc' = WriteFile(proc, FileName(processed_article.id), Truncated)
    /\ pc' = "u_proc_open"
    /\ UNCHANGED <<raw, op, now, crashes, ret, fetchVars, localVars, repairVars,
                   histVars>>
    /\ UNCHANGED outside

\* lines 64, 276-279
UnprocessedProcDump ==
    /\ pc = "u_proc_open"
    /\ proc' = WriteFile(proc, FileName(processed_article.id), processed_article)
    /\ processed_count' = processed_count + 1
    /\ article' = NoArticle
    /\ processed_article' = NoArticle
    /\ pc' = "u_loop"
    /\ UNCHANGED <<raw, op, now, crashes, ret, fetchVars, missing_ids, todo,
                   raw_articles, sync_count, histVars>>
    /\ UNCHANGED outside

\* line 288: the loop is over
UnprocessedReturn ==
    /\ pc = "u_loop"
    /\ raw_articles = <<>>
    /\ pc' = "u_done"
    /\ UNCHANGED <<storeVars, op, now, crashes, ret, fetchVars, localVars,
                   repairVars, histVars>>
    /\ UNCHANGED outside
UnprocessedDone ==
    /\ op = "unprocessed" /\ pc = "u_done"
    /\ ret' = [kind |-> "unprocessed", value |-> processed_count]
    /\ op' = "idle"
    /\ pc' = "idle"
    /\ ResetLocals
    /\ UNCHANGED <<storeVars, now, crashes, histVars>>
    /\ UNCHANGED outside

\* ------------------------------------------------------ sync_raw_processed
\* line 338
StartSync ==
    /\ Idle
    /\ now < MaxOps
    /\ op' = "sync"
    /\ now' = now + 1
    /\ attempts' = NoAttempts
    /\ EnterMissing
    /\ UNCHANGED <<storeVars, crashes, ret, fetchVars, localVars, raw_articles,
                   sync_count, orphaned, before, ingested>>
    /\ UNCHANGED outside

\* lines 338-339
SyncCallUnprocessed ==
    /\ op = "sync" /\ pc = "m_done"
    /\ sync_count' = processed_count
    /\ EnterUnprocessed
    /\ UNCHANGED <<storeVars, op, now, crashes, ret, fetchVars, localVars,
                   missing_ids, todo, histVars>>
    /\ UNCHANGED outside

\* lines 345-349
ErrorCount ==
    Cardinality({f \in DOMAIN proc :
        EndsWithJson(f) /\ proc[f] # Truncated /\ Has(proc[f], "processing_error")})

\* lines 341-353
SyncReturn ==
    /\ op = "sync" /\ pc = "u_done"
    /\ ret' = [kind |-> "sync",
               value |-> <<sync_count + processed_count, ErrorCount>>]
    /\ op' = "idle"
    /\ pc' = "idle"
    /\ ResetLocals
    /\ UNCHANGED <<storeVars, now, crashes, histVars>>
    /\ UNCHANGED outside

\* ------------------------------------------------------------ process kill
\* The process is killed while an operation runs and is started again: the
\* files stay as they are, the locals and the in-memory index are gone.
BetweenWrites == op = "fetch" /\ pc \in {"raw_saved", "processed", "proc_open"}

Crash ==
    /\ op # "idle"
    /\ crashes < MaxCrashes
    /\ crashes' = crashes + 1
    /\ orphaned' = IF BetweenWrites
                   THEN orphaned \cup {[id |-> article.id, at |-> pc]}
                   ELSE orphaned
    /\ ret' = [kind |-> "crashed"]
    /\ op' = "idle"
    /\ pc' = "idle"
    /\ ResetLocals
    /\ vectors' = <<>>
    /\ article_ids' = <<>>
    /\ result' = [call |-> "none"]
    /\ request' = [kind |-> "none"]
    /\ attempts' = NoAttempts
    /\ UNCHANGED <<storeVars, now, failed, before, ingested, response, inflight,
                   idVars>>

StoreNext ==
    \/ StartFetch \/ FetchSkipEntry \/ FetchRawOpen \/ FetchRawDump
    \/ FetchProcess \/ FetchProcOpen \/ FetchProcDump \/ FetchSleep
    \/ FetchCallMissing \/ FetchReturn
    \/ StartMissing \/ MissingLoad \/ MissingLoadFails \/ MissingProcess
    \/ MissingProcOpen \/ MissingProcDump \/ MissingReturn \/ MissingDone
    \/ StartUnprocessed \/ UnprocessedVisit \/ UnprocessedProcOpen
    \/ UnprocessedProcDump \/ UnprocessedReturn \/ UnprocessedDone
    \/ StartSync \/ SyncCallUnprocessed \/ SyncReturn
    \/ Crash

SpecStore == Init /\ [][StoreNext]_vars

\* ------------------------------------------------------------ VectorStore
\* config.py VECTOR_DIMENSION, 1024 there, scaled down
VECTOR_DIMENSION == 2
\* Entries of article_ids, at most
MaxIndex == 3
\* Entries of one add_articles batch, at most
MaxBatch == 2
\* The k of a search_similar query, at most
MaxK == 5
\* The k of a recommender query, at most
MaxRecommend == 2
\* Articles of a recommender corpus, at most
MaxCorpus == 2

Coord == 0..1
RightVectors == [1..VECTOR_DIMENSION -> Coord]
WrongVector == [i \in 1..(VECTOR_DIMENSION - 1) |-> 0]
Embeddings == RightVectors \cup {WrongVector}

IndexIds == {<<"x">>, <<"y">>, <<"z">>}

\* The embedding of the article with this id
EmbeddingOf(id) ==
    CASE id = <<"x">> -> <<0, 0>>
      [] id = <<"y">> -> <<1, 0>>
      [] OTHER -> <<1, 1>>

\* A dict id -> embedding, in insertion order: no id twice.  An article comes
\* with its embedding or with one of the wrong dimension.
BatchItems ==
    {[id |-> id, embedding |-> e] : id \in IndexIds, e \in {WrongVector}}
    \cup {[id |-> id, embedding |-> EmbeddingOf(id)] : id \in IndexIds}
Batches ==
    {b \in UNION {[1..n -> BatchItems] : n \in 0..MaxBatch} :
        \A i \in 1..Len(b), j \in 1..Len(b) : i # j => b[i].id # b[j].id}

\* An entry of vectors is [vec, of]: the stored vector, and (history) the id it
\* was added for.
TheIndex == [vectors |-> vectors, article_ids |-> article_ids]

\* VectorStore.clear
clear(ix) == [vectors |-> <<>>, article_ids |-> <<>>]

\* VectorStore.add_articles.  The ids are appended in the loop (lines 15-17);
\* then np.array(...).astype (line 19) raises for embeddings of unequal
\* lengths, and index.add (line 20) raises for an empty batch (a 1-d array)
\* and for a dimension other than the index's.
add_articles(ix, batch) ==
    LET ids == [i \in 1..Len(batch) |-> batch[i].id]
        ok == /\ batch # <<>>
              /\ \A i \in 1..Len(batch) : Len(batch[i].embedding) = VECTOR_DIMENSION
    IN  [vectors |-> IF ok
                     THEN ix.vectors \o [i \in 1..Len(batch) |->
                              [vec |-> batch[i].embedding, of |-> batch[i].id]]
                     ELSE ix.vectors,
         article_ids |-> ix.article_ids \o ids,
         raised |-> ~ok]

\* The squared Euclidean distance IndexFlatL2 orders by
RECURSIVE SqDist(_, _)
SqDist(u, v) ==
    IF u = <<>> THEN 0
    ELSE (Head(u) - Head(v)) * (Head(u) - Head(v)) + SqDist(Tail(u), Tail(v))

Min(a, b) == IF a <= b THEN a ELSE b

\* index.search(query, k): the labels (0-based) of the min(k, ntotal) nearest
\* vectors, nearest first, equally near ones in any order, then -1 up to k
Labels(vecs, query, k) ==
    LET n == Len(vecs)
        m == Min(k, n)
        d(l) == SqDist(vecs[l + 1].vec, query)
    IN  {[i \in 1..k |-> IF i <= m THEN r[i] ELSE -1] :
            r \in {f \in [1..m -> 0..(n - 1)] :
                /\ \A i \in 1..m, j \in 1..m : i < j => f[i] # f[j] /\ d(f[i]) <= d(f[j])
                /\ \A l \in 0..(n - 1) :
                      (\A i \in 1..m : f[i] # l) => \A i \in 1..m : d(f[i]) <= d(l)}}

\* list[idx] of Python, idx 0-based, a negative idx counted from the end
PyInRange(list, idx) == -Len(list) <= idx /\ idx < Len(list)
PyItem(list, idx) == IF idx >= 0 THEN list[idx + 1] ELSE list[Len(list) + idx + 1]

\* VectorStore.search_similar: the outcomes it may have
search_similar(ix, query_embedding, k) ==
    IF Len(query_embedding) # VECTOR_DIMENSION
    THEN {[raised |-> TRUE, error |-> "AssertionError"]}
    ELSE {IF \A i \in 1..k : PyInRange(ix.article_ids, indices[i])
          THEN [raised |-> FALSE,
                value |-> [i \in 1..k |-> PyItem(ix.article_ids, indices[i])]]
          ELSE [raised |-> TRUE, error |-> "IndexError"] :
            indices \in Labels(ix.vectors, query_embedding, k)}

Clear ==
    /\ Idle /\ result.call = "none"
    /\ vectors' = clear(TheIndex).vectors
    /\ article_ids' = clear(TheIndex).article_ids
    /\ result' = [call |-> "clear", raised |-> FALSE]
    /\ UNCHANGED <<storeVars, ctlVars, fetchVars, localVars, repairVars, histVars,
                   apiVars, idVars>>

AddArticles ==
    /\ Idle /\ result.call = "none"
    /\ \E batch \in Batches :
          /\ Len(article_ids) + Len(batch) <= MaxIndex
          /\ LET after == add_articles(TheIndex, batch)
             IN  /\ vectors' = after.vectors
                 /\ article_ids' = after.article_ids
                 /\ result' = [call |-> "add_articles", raised |-> after.raised,
                                before |-> TheIndex]
    /\ UNCHANGED <<storeVars, ctlVars, fetchVars, localVars, repairVars, histVars,
                   apiVars, idVars>>

SearchSimilar ==
    /\ Idle /\ result.call = "none"
    /\ \E q \in Embeddings, k \in 1..MaxK :
          \E out \in search_similar(TheIndex, q, k) :
              result' = [call |-> "search_similar", raised |-> out.raised,
                         out |-> out, query |-> q, k |-> k]
    /\ UNCHANGED <<storeVars, ctlVars, fetchVars, localVars, repairVars, histVars,
                   vectors, article_ids, apiVars, idVars>>

\* ------------------------------------------------------------ Recommender
\* What the embedding collaborator may give for one text: a vector, or an error
EmbedOutcomes ==
    {[raised |-> TRUE]} \cup {[raised |-> FALSE, value |-> v] : v \in Embeddings}

CorpusArticle(id) == [id |-> id, title |-> id, content |-> ShortText]
Corpora == UNION {[1..n -> {CorpusArticle(id) : id \in IndexIds}] : n \in 0..MaxCorpus}

\* {article['id']: article for article in articles}: the last one wins
ArticlesDict(articles) ==
    [id \in {articles[i].id : i \in 1..Len(articles)} |->
        articles[CHOOSE i \in 1..Len(articles) :
            /\ articles[i].id = id
            /\ \A j \in (i + 1)..Len(articles) : articles[j].id # id]]

\* [x for x in list if keep(x)]
RECURSIVE WithoutId(_, _)
WithoutId(ids, id) ==
    IF ids = <<>> THEN <<>>
    ELSE IF Head(ids) # id THEN <<Head(ids)>> \o WithoutId(Tail(ids), id)
    ELSE WithoutId(Tail(ids), id)

\* list[:k]
Prefix(list, k) == SubSeq(list, 1, Min(k, Len(list)))

\* As RecommenderResult, without the `if aid != article_id` of line 37
RecommenderResult_NoFilter(articles_dict, similar_article_ids, article_id, k) ==
    Prefix([i \in 1..Len(similar_article_ids) |-> articles_dict[similar_article_ids[i]]], k)

\* Recommender.get_similar_articles, lines 36-39
RecommenderResult(articles_dict, similar_article_ids, article_id, k) ==
    LET kept == WithoutId(similar_article_ids, article_id)
    IN  Prefix([i \in 1..Len(kept) |-> articles_dict[kept[i]]], k)

\* As RecommenderKnows, taking every id for known
RecommenderKnows_Always(articles_dict, article_id) == TRUE

\* Recommender.get_similar_articles, lines 26-27: the query article is found
RecommenderKnows(articles_dict, article_id) == article_id \in DOMAIN articles_dict

\* Recommender.get_similar_articles: the outcomes it may have.  embedding is
\* what the embedding collaborator gives for the query article.  embed_calls
\* and search_calls (history) count the calls of the two collaborators.
get_similar_articles(ix, article_id, articles, k, embedding) ==
    LET articles_dict == ArticlesDict(articles)
    IN  IF ~RecommenderKnows(articles_dict, article_id)
        THEN {[raised |-> FALSE, value |-> <<>>, embed_calls |-> 0, search_calls |-> 0]}
        ELSE IF embedding.raised
        THEN {[raised |-> TRUE, error |-> "EmbeddingError",
               embed_calls |-> 1, search_calls |-> 0]}
        ELSE {IF found.raised
              THEN [raised |-> TRUE, error |-> found.error,
                    embed_calls |-> 1, search_calls |-> 1]
              ELSE IF \E i \in 1..Len(found.value) :
                         /\ found.value[i] # article_id
                         /\ found.value[i] \notin DOMAIN articles_dict
              THEN [raised |-> TRUE, error |-> "KeyError",
                    embed_calls |-> 1, search_calls |-> 1]
              ELSE [raised |-> FALSE,
                    value |-> RecommenderResult(articles_dict, found.value,
                                                article_id, k),
                    embed_calls |-> 1, search_calls |-> 1] :
                found \in search_similar(ix, embedding.value, k + 1)}

GetSimilar ==
    /\ Idle /\ result.call = "none"
    /\ \E id \in IndexIds, articles \in Corpora, k \in 0..MaxRecommend,
          embedding \in EmbedOutcomes :
          \E out \in get_similar_articles(TheIndex, id, articles, k, embedding) :
              result' = [call |-> "get_similar_articles", raised |-> out.raised,
                         out |-> out, article_id |-> id, articles |-> articles,
                         k |-> k]
    /\ UNCHANGED <<storeVars, ctlVars, fetchVars, localVars, repairVars, histVars,
                   vectors, article_ids, apiVars, idVars>>

\* The caller has what the call gave; the next call can be made
TakeResult ==
    /\ Idle /\ result.call # "none"
    /\ result' = [call |-> "none"]
    /\ UNCHANGED <<storeVars, ctlVars, fetchVars, localVars, repairVars, histVars,
                   vectors, article_ids, apiVars, idVars>>

IndexNext == Clear \/ AddArticles \/ SearchSimilar \/ GetSimilar \/ TakeResult

SpecIndex == Init /\ [][IndexNext]_vars


\* ------------------------------------------------------ request handlers
\* main.py line 50: k=5
SIMILAR_K == 5

\* What the embedding collaborator gives for an article's text
TextEmbedding(a) ==
    CASE a.title = EntryA.title -> <<0, 0>>
      [] a.title = EntryB.title -> <<1, 0>>
      [] OTHER -> <<1, 1>>

\* The identifiers a request may name
RequestIds == {generate_article_id(e.title, e.published) : e \in {EntryA, EntryC}}

\* Both are subclasses of Exception, as every error raised here
HTTPException(status_code) == [class |-> "HTTPException", status_code |-> status_code]
Error(class) == [class |-> class, status_code |-> 0]
IsException(exc) ==
    exc.class \in {"HTTPException", "KeyError", "IndexError", "AssertionError",
                   "ValueError", "EmbeddingError", "LLMError"}

Raise(exc) == [raised |-> TRUE, exc |-> exc]
Return == [raised |-> FALSE]

\* try: <body> except Exception as e: raise HTTPException(status_code=500),
\* and the status FastAPI answers with
StatusOf(body) ==
    IF ~body.raised THEN 200
    ELSE IF IsException(body.exc) THEN 500
    ELSE body.exc.status_code

\* next((article for article in articles if article['id'] == article_id), None)
Found(articles, article_id) == \E i \in 1..Len(articles) : articles[i].id = article_id
FirstWithId(articles, article_id) ==
    articles[CHOOSE i \in 1..Len(articles) :
        /\ articles[i].id = article_id
        /\ \A j \in 1..(i - 1) : articles[j].id # article_id]

\* The keys of {article['id']: ... for article in articles}, in insertion order
RECURSIVE DictKeys(_)
DictKeys(articles) ==
    IF articles = <<>> THEN <<>>
    ELSE LET init == DictKeys(SubSeq(articles, 1, Len(articles) - 1))
             last == articles[Len(articles)].id
         IN  IF \E i \in 1..Len(init) : init[i] = last THEN init
             ELSE Append(init, last)

\* EmbeddingGenerator.get_article_embeddings: the dict id -> embedding, in
\* insertion order (a later article with the same id replaces the value)
get_article_embeddings(articles) ==
    LET keys == DictKeys(articles)
        dict == ArticlesDict(articles)
    IN  [i \in 1..Len(keys) |->
            [id |-> keys[i], embedding |-> TextEmbedding(dict[keys[i]])]]

\* A request of one of these kinds arrives: every handler first calls
\* fetch_articles()
StartRequestOf(kinds) ==
    /\ Idle
    /\ now < MaxOps
    /\ \E kind \in kinds, id \in RequestIds :
          request' = [kind |-> kind,
                      article_id |-> IF kind = "fetch_news" THEN <<>> ELSE id]
    /\ \E q \in FeedReads : queue' = q
    /\ op' = "fetch"
    /\ pc' = "entry"
    /\ now' = now + 1
    /\ all_articles' = <<>>
    /\ attempts' = NoAttempts
    /\ UNCHANGED <<storeVars, crashes, ret, localVars, repairVars,
                   failed, orphaned, before, ingested, indexVars, response,
                   inflight, idVars>>

StartRequest ==
    /\ request.kind = "none"
    /\ StartRequestOf({"fetch_news", "similar", "analyze"})

\* The handler has answered (history: index_before, the index as the request
\* found it; exc, the class of the exception the body raised, "" when none)
Respond(body) ==
    /\ response' = [status |-> StatusOf(body), kind |-> request.kind,
                    article_id |-> request.article_id, articles |-> all_articles,
                    index_before |-> TheIndex,
                    exc |-> IF body.raised THEN body.exc.class ELSE ""]
    /\ request' = [kind |-> "none"]
    /\ inflight' = inflight
    /\ ret' = [kind |-> "request"]
    /\ op' = "idle"
    /\ pc' = "idle"
    /\ ResetLocals

\* As fetch_news, with the vector_store.clear() of line 27 before line 24
fetch_news_ClearsFirst(ix, articles, embedded) ==
    IF ~embedded THEN [index |-> clear(ix), body |-> Raise(Error("EmbeddingError"))]
    ELSE LET after == add_articles(clear(ix), get_article_embeddings(articles))
         IN  [index |-> [vectors |-> after.vectors, article_ids |-> after.article_ids],
              body |-> IF after.raised THEN Raise(Error("ValueError")) ELSE Return]

\* As fetch_news, without the vector_store.clear() of line 27
fetch_news_NoClear(ix, articles, embedded) ==
    IF ~embedded THEN [index |-> ix, body |-> Raise(Error("EmbeddingError"))]
    ELSE LET after == add_articles(ix, get_article_embeddings(articles))
         IN  [index |-> [vectors |-> after.vectors, article_ids |-> after.article_ids],
              body |-> IF after.raised THEN Raise(Error("ValueError")) ELSE Return]

\* main.py lines 24-32, after fetch_articles() has returned.  embedded is
\* whether the embedding collaborator answers.
fetch_news(ix, articles, embedded) ==
    IF ~embedded THEN [index |-> ix, body |-> Raise(Error("EmbeddingError"))]
    ELSE LET after == add_articles(clear(ix), get_article_embeddings(articles))
         IN  [index |-> [vectors |-> after.vectors, article_ids |-> after.article_ids],
              body |-> IF after.raised THEN Raise(Error("ValueError")) ELSE Return]

HandleFetchNews ==
    /\ op = "fetch" /\ pc = "m_done"
    /\ request.kind = "fetch_news"
    /\ \E embedded \in BOOLEAN :
          LET done == fetch_news(TheIndex, all_articles, embedded)
          IN  /\ vectors' = done.index.vectors
              /\ article_ids' = done.index.article_ids
              /\ Respond(done.body)
    /\ UNCHANGED <<storeVars, now, crashes, histVars, result, idVars>>

\* main.py lines 39-57, after fetch_articles() has returned: the outcomes
similar_articles(ix, articles, article_id, embedded) ==
    IF ~Found(articles, article_id) THEN {Raise(HTTPException(404))}
    ELSE IF ~embedded THEN {Raise(Error("EmbeddingError"))}
    ELSE LET articles_dict == ArticlesDict(articles)
             query_embedding == TextEmbedding(FirstWithId(articles, article_id))
         IN  {IF found.raised THEN Raise(Error(found.error))
              ELSE IF \E i \in 1..Len(found.value) :
                         /\ found.value[i] # article_id
                         /\ found.value[i] \notin DOMAIN articles_dict
                   THEN Raise(Error("KeyError"))
                   ELSE Return :
                found \in search_similar(ix, query_embedding, SIMILAR_K)}

HandleSimilar ==
    /\ op = "fetch" /\ pc = "m_done"
    /\ request.kind = "similar"
    /\ \E embedded \in BOOLEAN :
          \E body \in similar_articles(TheIndex, all_articles, request.article_id,
                                        embedded) :
              Respond(body)
    /\ UNCHANGED <<storeVars, now, crashes, histVars, indexVars, idVars>>

\* main.py lines 66-80, after fetch_articles() has returned.  analysed is
\* whether the analysis collaborator answers.
analyze_article(articles, article_id, analysed) ==
    IF ~Found(articles, article_id) THEN Raise(HTTPException(404))
    ELSE IF ~analysed THEN Raise(Error("LLMError"))
    ELSE Return

HandleAnalyze ==
    /\ op = "fetch" /\ pc = "m_done"
    /\ request.kind = "analyze"
    /\ \E analysed \in BOOLEAN :
          Respond(analyze_article(all_articles, request.article_id, analysed))
    /\ UNCHANGED <<storeVars, now, crashes, histVars, indexVars, idVars>>

ApiNext ==
    \/ StartRequest \/ FetchSkipEntry \/ FetchRawOpen \/ FetchRawDump
    \/ FetchProcess \/ FetchProcOpen \/ FetchProcDump \/ FetchSleep
    \/ FetchCallMissing
    \/ MissingLoad \/ MissingLoadFails \/ MissingProcess
    \/ MissingProcOpen \/ MissingProcDump \/ MissingReturn
    \/ HandleFetchNews \/ HandleSimilar \/ HandleAnalyze
    \/ Crash

SpecApi == Init /\ [][ApiNext]_vars

\* The fetch_news requests alone, the process not killed: every raw file gets
\* its processed file in the cycle, process_missing_articles finds nothing
StartRefresh ==
    /\ request.kind = "none"
    /\ StartRequestOf({"fetch_news"})

RefreshNext ==
    \/ StartRefresh \/ FetchSkipEntry \/ FetchRawOpen \/ FetchRawDump
    \/ FetchProcess \/ FetchProcOpen \/ FetchProcDump \/ FetchSleep
    \/ FetchCallMissing \/ MissingReturn
    \/ HandleFetchNews

SpecRefresh == Init /\ [][RefreshNext]_vars

\* ---------------------------------------------------------- the event loop
\* Requests the event loop holds at a time, at most
MaxInflight == 2

\* As LoopMayRun, the handlers declared `def`: each runs in a thread of its own
LoopMayRun_Threads(r) == TRUE

\* main.py lines 17-18 and 34-35: the handlers are `async def` and hold no
\* await, so the one that has started runs to its end before the event loop
\* starts another.  r may take its next step when no other handler has started.
LoopMayRun(r) ==
    \A s \in DOMAIN inflight \ {r} : inflight[s].pc = "pending"

\* NewsFetcher.fetch_articles run to its end at time t, no kill: for each
\* entry with a title the raw file, the processed file and the list it
\* returns (lines 181-207); pages[i] is what _fetch_full_content gives for
\* entry i.  done is [raw, proc, all_articles].
RECURSIVE fetch_articles(_, _, _, _)
fetch_articles(done, reads, pages, t) ==
    IF reads = <<>> THEN done
    ELSE IF ~Head(reads).hasTitle
    THEN fetch_articles(done, Tail(reads), Tail(pages), t)
    ELSE LET a == NewArticle(Head(reads), t)
             p == _process_article(a, Head(pages), t)
         IN  fetch_articles([raw |-> WriteFile(done.raw, FileName(a.id), a),
                             proc |-> WriteFile(done.proc, FileName(p.id), p),
                             all_articles |-> Append(done.all_articles, p)],
                            Tail(reads), Tail(pages), t)

\* A request arrives and waits for the event loop (it is given the lowest
\* number no request it holds has)
LoopArrive ==
    /\ \E r \in (1..MaxInflight) \ DOMAIN inflight,
          kind \in {"fetch_news", "similar"}, id \in RequestIds :
          /\ \A s \in 1..(r - 1) : s \in DOMAIN inflight
          /\ inflight' = [s \in DOMAIN inflight \cup {r} |->
                             IF s = r
                             THEN [kind |-> kind, pc |-> "pending", articles |-> <<>>,
                                   article_id |-> IF kind = "fetch_news" THEN <<>>
                                                  ELSE id]
                             ELSE inflight[s]]
    /\ UNCHANGED <<storeVars, ctlVars, fetchVars, localVars, repairVars, histVars,
                   indexVars, request, response, idVars>>

\* main.py lines 21 and 37: the handler starts and calls fetch_articles().
\* The feeds hold entries a request may name (RequestIds), each at most once.
LoopFetch ==
    /\ now < MaxOps
    /\ \E r \in DOMAIN inflight :
          /\ LoopMayRun(r)
          /\ inflight[r].pc = "pending"
          /\ \E reads \in {<<>>, <<EntryA>>, <<EntryC>>, <<EntryA, EntryC>>} :
                \E pages \in [1..Len(reads) -> Pages] :
                    LET done == fetch_articles([raw |-> raw, proc |-> proc,
                                                all_articles |-> <<>>],
                                               reads, pages, now + 1)
                    IN  /\ raw' = done.raw
                        /\ proc' = done.proc
                        /\ inflight' = [inflight EXCEPT ![r].pc = "fetched",
                                                        ![r].articles = done.all_articles]
    /\ now' = now + 1
    /\ UNCHANGED <<op, pc, crashes, ret, fetchVars, localVars, repairVars, histVars,
                   indexVars, request, response, idVars>>

\* main.py lines 24-32, fetch_news after fetch_articles(), a step at a time:
\* the embeddings (line 24), clear() (line 27), add_articles() and the
\* answer (lines 28-32)
LoopRefresh ==
    \E r \in DOMAIN inflight :
        /\ LoopMayRun(r)
        /\ inflight[r].kind = "fetch_news"
        /\ LET answer(body) ==
                   /\ response' = [status |-> StatusOf(body), kind |-> "fetch_news",
                                   index_before |-> TheIndex,
                                   exc |-> IF body.raised THEN body.exc.class ELSE ""]
                   /\ inflight' = [s \in DOMAIN inflight \ {r} |-> inflight[s]]
           IN  \/ /\ inflight[r].pc = "fetched"
                  /\ \/ /\ inflight' = [inflight EXCEPT ![r].pc = "embedded"]
                        /\ UNCHANGED response
                     \/ answer(Raise(Error("EmbeddingError")))
                  /\ UNCHANGED <<vectors, article_ids>>
               \/ /\ inflight[r].pc = "embedded"
                  /\ vectors' = clear(TheIndex).vectors
                  /\ article_ids' = clear(TheIndex).article_ids
                  /\ inflight' = [inflight EXCEPT ![r].pc = "cleared"]
                  /\ UNCHANGED response
               \/ /\ inflight[r].pc = "cleared"
                  /\ LET after == add_articles(TheIndex,
                                      get_article_embeddings(inflight[r].articles))
                     IN  /\ vectors' = after.vectors
                         /\ article_ids' = after.article_ids
                         /\ answer(IF after.raised THEN Raise(Error("ValueError"))
                                   ELSE Return)
    /\ UNCHANGED <<storeVars, ctlVars, fetchVars, localVars, repairVars, histVars,
                   result, request, idVars>>

\* main.py lines 38-57, get_similar_articles after fetch_articles().  The
\* answer records (history) the index the handler found, whether
\* search_similar was called and, for each other request the event loop held
\* then, its kind and its position.
LoopSearch ==
    /\ \E r \in DOMAIN inflight :
          /\ LoopMayRun(r)
          /\ inflight[r].kind = "similar"
          /\ inflight[r].pc = "fetched"
          /\ \E embedded \in BOOLEAN :
                \E body \in similar_articles(TheIndex, inflight[r].articles,
                                             inflight[r].article_id, embedded) :
                    response' = [status |-> StatusOf(body), kind |-> "similar",
                                 index_before |-> TheIndex,
                                 exc |-> IF body.raised THEN body.exc.class ELSE "",
                                 searched |-> /\ embedded
                                              /\ Found(inflight[r].articles,
                                                       inflight[r].article_id),
                                 others |-> {[kind |-> inflight[s].kind,
                                              pc |-> inflight[s].pc] :
                                                s \in DOMAIN inflight \ {r}}]
          /\ inflight' = [s \in DOMAIN inflight \ {r} |-> inflight[s]]
    /\ UNCHANGED <<storeVars, ctlVars, fetchVars, localVars, repairVars, histVars,
                   indexVars, request, idVars>>

SpecLoop == Init /\ [][LoopArrive \/ LoopFetch \/ LoopRefresh \/ LoopSearch]_vars

\* ---------------------------------------------- claims about the handlers
\* C8: a similar-articles or analyze-article request for an identifier that
\* is not among the fetched articles is answered with 404, not with 500.
C8_NotFoundSignal ==
    (/\ Idle
     /\ response.kind \in {"similar", "analyze"}
     /\ ~Found(response.articles, response.article_id)) => response.status = 404

\* C16: after a fetch_news request that succeeded the index holds one entry
\* for each identifier among the articles of this cycle, each with its
\* vector, and nothing else.
C16_IndexRebuilt ==
    (/\ Idle /\ ret.kind = "request"
     /\ response.kind = "fetch_news" /\ response.status = 200) =>
        /\ Len(vectors) = Len(article_ids)
        /\ {article_ids[i] : i \in 1..Len(article_ids)}
             = {response.articles[i].id : i \in 1..Len(response.articles)}
        /\ \A i \in 1..Len(article_ids), j \in 1..Len(article_ids) :
              i # j => article_ids[i] # article_ids[j]
        /\ \A i \in 1..Len(vectors) : vectors[i].of = article_ids[i]

\* A fetch_news that found the index of an earlier cycle, with an identifier
\* this cycle did not fetch, has succeeded
C16_Witness ==
    /\ Idle /\ ret.kind = "request"
    /\ response.kind = "fetch_news" /\ response.status = 200
    /\ \E i \in 1..Len(response.index_before.article_ids) :
          \A j \in 1..Len(response.articles) :
              response.articles[j].id # response.index_before.article_ids[i]

\* C24: a fetch_news request in which the embedding collaborator raised is
\* answered with 500 and leaves the index (vectors and article_ids) as the
\* request found it: clear() runs after the embeddings were obtained.
C24_EmbeddingFailureKeepsIndex ==
    (/\ Idle /\ ret.kind = "request"
     /\ response.kind = "fetch_news" /\ response.exc = "EmbeddingError") =>
        /\ response.status = 500
        /\ TheIndex = response.index_before

\* The embedding collaborator raised in a request that found articles in the
\* index and had fetched articles itself
C24_Witness ==
    /\ Idle /\ ret.kind = "request"
    /\ response.kind = "fetch_news" /\ response.exc = "EmbeddingError"
    /\ response.index_before.article_ids # <<>>
    /\ response.articles # <<>>
    /\ vectors # <<>>

\* C25: with several requests held by the event loop, no search_similar of a
\* similar-articles handler runs while a fetch_news handler is between its
\* clear() and the end of its add_articles(), and no two handlers are under
\* way at a time.
C25_NoQueryDuringRebuild ==
    /\ (response.kind = "similar" /\ Has(response, "others") /\ response.searched) =>
           \A o \in response.others : ~(o.kind = "fetch_news" /\ o.pc = "cleared")
    /\ Cardinality({r \in DOMAIN inflight : inflight[r].pc # "pending"}) <= 1

\* A query ran search_similar on an index a fetch_news request had filled,
\* while another fetch_news request was held by the event loop
C25_Witness ==
    /\ response.kind = "similar" /\ Has(response, "others") /\ response.searched
    /\ response.index_before.vectors # <<>>
    /\ \E o \in response.others : o.kind = "fetch_news"

\* ------------------------------------------------------ generate_article_id
\* Characters of a title or a date, at most
MaxStrLen == 2
Strings == UNION {[1..n -> {"a", "b"}] : n \in 0..MaxStrLen}

IdInit ==
    /\ Constructed
    /\ id_args \in [first : Strings \X Strings, second : Strings \X Strings]
    /\ id_out = NoIds
    /\ fn_args = NoCall
    /\ fn_out = NoCall

\* The identifiers of both pairs; the first one is asked for twice
GenerateIds ==
    /\ id_out = NoIds
    /\ id_out' = [first |-> generate_article_id(id_args.first[1], id_args.first[2]),
                  again |-> generate_article_id(id_args.first[1], id_args.first[2]),
                  second |-> generate_article_id(id_args.second[1], id_args.second[2])]
    /\ UNCHANGED <<storeVars, ctlVars, fetchVars, localVars, repairVars, histVars,
                   indexVars, apiVars, id_args, fn_args, fn_out>>

SpecId == IdInit /\ [][GenerateIds]_vars

\* C5: generate_article_id gives the same identifier for the same
\* (title, date) and, the hash being collision-free, different identifiers
\* for different (title, date) pairs.
C5_Identity ==
    id_out # NoIds =>
        /\ id_out.again = id_out.first
        /\ (id_args.first # id_args.second => id_out.first # id_out.second)
\* --------------------------------------------------------- _process_article
\* The articles _process_article may be given: what fetch_articles builds for
\* an entry, with the source as built, empty, absent, or one urlparse rejects
SourceOf(a, how) ==
    CASE how = "built" -> a
      [] how = "empty" -> Put(a, "source", "")
      [] how = "bad" -> Put(a, "source", BadUrl)
      [] OTHER -> [k \in DOMAIN a \ {"source"} |-> a[k]]
EnrichArticles ==
    {SourceOf(NewArticle(e, t), how) :
        e \in {x \in Entries : x.hasTitle}, t \in 0..MaxOps,
        how \in {"built", "empty", "bad", "absent"}}

EnrichInit ==
    /\ Constructed
    /\ id_args = NoIds
    /\ id_out = NoIds
    /\ fn_args \in [article : EnrichArticles, page : Pages, now : 1..MaxOps]
    /\ fn_out = NoCall

\* self._process_article(article)
ProcessArticle ==
    /\ fn_out = NoCall
    /\ fn_out' = [call |-> "_process_article",
                  out |-> _process_article_outcome(fn_args.article, fn_args.page,
                                                   fn_args.now)]
    /\ UNCHANGED <<storeVars, ctlVars, fetchVars, localVars, repairVars, histVars,
                   indexVars, apiVars, id_args, id_out, fn_args>>

SpecEnrich == EnrichInit /\ [][ProcessArticle]_vars

\* C11: _process_article raises nothing and returns an article with the id it
\* was given, processed = true and a processing timestamp, and with a
\* processing_error when a step of the enrichment raised.
C11_EnrichmentAlwaysReturns ==
    fn_out # NoCall =>
        /\ ~fn_out.out.raised
        /\ fn_out.out.value.id = fn_args.article.id
        /\ fn_out.out.value.processed = TRUE
        /\ Has(fn_out.out.value, "processed_timestamp")
        /\ (TryRaises(fn_args.article) # "" => Has(fn_out.out.value, "processing_error"))

\* urlparse raised for an article whose page had been fetched
C11_Witness ==
    /\ fn_out # NoCall
    /\ TryRaises(fn_args.article) # ""
    /\ fn_args.page # <<>>
    /\ TextLen(fn_args.article.content) < 500 /\ fn_args.article.link # ""
    /\ Has(fn_out.out.value, "processing_error")

\* ------------------------------------- _process_article, then the save
\* Articles enriched and saved one after the other, at most
MaxSaves == 2

\* The articles to enrich and save, each with what _fetch_full_content gives
\* for it: articles as fetch_articles builds them, and with a source that is
\* empty, absent, or one urlparse rejects
SaveInit ==
    /\ Constructed
    /\ id_args = NoIds
    /\ id_out = NoIds
    /\ fn_args \in [todo : UNION {[1..n -> [article : {a \in EnrichArticles :
                                                        a.fetch_timestamp = 0},
                                            page : Pages]] : n \in 0..MaxSaves}]
    /\ fn_out = NoCall

\* processed_article = self._process_article(article);
\* self._save_processed_article(processed_article)
\* (lines 201-202, 274-275, 311-312)
SaveProcessed ==
    /\ fn_args.todo # <<>>
    /\ LET next == Head(fn_args.todo)
           saved == _process_article(next.article, next.page, 1)
       IN  /\ proc' = WriteFile(proc, FileName(saved.id), saved)
           /\ fn_out' = [call |-> "_save_processed_article", article |-> next.article]
    /\ fn_args' = [todo |-> Tail(fn_args.todo)]
    /\ UNCHANGED <<raw, ctlVars, fetchVars, localVars, repairVars, histVars,
                   indexVars, apiVars, id_args, id_out>>

SpecSave == SaveInit /\ [][SaveProcessed]_vars

\* C23: every record of the processed directory has processed = true, also
\* the record of an article whose enrichment raised.
C23_ProcessedRecordsMarked ==
    \A f \in DOMAIN proc : Readable(proc, f) => proc[f].processed = TRUE

\* Two records saved: one whose enrichment raised, one enriched
C23_Witness ==
    /\ fn_out # NoCall
    /\ \E f \in DOMAIN proc, g \in DOMAIN proc :
          /\ Readable(proc, f) /\ Readable(proc, g)
          /\ Has(proc[f], "processing_error")
          /\ ~Has(proc[g], "processing_error")
          /\ Has(proc[g], "reading_time_minutes")

\* ------------------------------------------------------ get_stored_articles
\* The directories get_stored_articles may be given: under the file name of
\* an entry's identifier the raw article of the entry, its processed article,
\* or a file that was not written out.  The entries are those of the feeds
\* and one the feeds held at an earlier run.
StoredDirs ==
    LET earlier == [feed |-> 1, hasTitle |-> TRUE, title |-> <<"c">>,
                    published |-> <<"a">>, summary |-> ShortText, link |-> "http://a"]
        titled == {e \in Entries : e.hasTitle} \cup {earlier}
        names == {FileName(generate_article_id(e.title, e.published)) : e \in titled}
        contents(fn) ==
            {Truncated}
            \cup {NewArticle(e, 1) : e \in {x \in titled :
                      FileName(generate_article_id(x.title, x.published)) = fn}}
            \cup {_process_article(NewArticle(e, 1), <<>>, 1) : e \in {x \in titled :
                      FileName(generate_article_id(x.title, x.published)) = fn}}
    IN  UNION {{d \in [S -> UNION {contents(fn) : fn \in S}] :
                   \A fn \in S : d[fn] \in contents(fn)} : S \in SUBSET names}

ReadInit ==
    /\ Constructed
    /\ id_args = NoIds
    /\ id_out = NoIds
    /\ fn_args \in [dir : StoredDirs]
    /\ fn_out = NoCall

\* self.get_stored_articles(...)
ListStored ==
    /\ fn_out = NoCall
    /\ \E l \in get_stored_articles(fn_args.dir) :
          fn_out' = [call |-> "get_stored_articles", out |-> l]
    /\ UNCHANGED <<storeVars, ctlVars, fetchVars, localVars, repairVars, histVars,
                   indexVars, apiVars, id_args, id_out, fn_args>>

SpecRead == ReadInit /\ [][ListStored]_vars

MaxSentences == 4
\* Its max_sentences, at most
MaxSummary == 3

\* The texts: sentences of few words and of 10 to 30 words, a sentence
\* possibly more than once
SummaryInit ==
    /\ Constructed
    /\ id_args = NoIds
    /\ id_out = NoIds
    /\ LET sentence == {[chars |-> 10, words |-> 3], [chars |-> 11, words |-> 3],
                        [chars |-> 50, words |-> 12]}
           texts == UNION {[1..n -> sentence] : n \in 0..MaxSentences}
       IN  fn_args \in [text : texts, max_sentences : 0..MaxSummary]
    /\ fn_out = NoCall

\* self._generate_summary(text, max_sentences)
Summarize ==
    /\ fn_out = NoCall
    /\ fn_out' = [call |-> "_generate_summary",
                  out |-> _generate_summary(fn_args.text, fn_args.max_sentences)]
    /\ UNCHANGED <<storeVars, ctlVars, fetchVars, localVars, repairVars, histVars,
                   indexVars, apiVars, id_args, id_out, fn_args>>

SpecSummary == SummaryInit /\ [][Summarize]_vars

\* C19: _generate_summary returns a text of at most max_sentences sentences
\* as it is; of a longer one it returns the max_sentences sentences of the
\* highest score (1 / position, plus 0.5 for 10 to 30 words), of equal scores
\* the earlier one, in the order they have in the text.
C19_SummarizerBound ==
    fn_out # NoCall =>
        LET text == fn_args.text
            n == Len(text)
            m == fn_args.max_sentences
            num(p) == 2 + (IF 10 <= text[p].words /\ text[p].words <= 30 THEN p ELSE 0)
            Beats(p, q) == \/ num(p) * q > num(q) * p
                           \/ (num(p) * q = num(q) * p /\ p < q)
            chosen == {p \in 1..n : Cardinality({q \in 1..n : Beats(q, p)}) < m}
            nth(i) == CHOOSE p \in chosen : Cardinality({q \in chosen : q < p}) = i - 1
        IN  IF n <= m THEN fn_out.out = text
            ELSE fn_out.out = [i \in 1..m |-> text[nth(i)]]

\* ------------------------------------------------- claims about the index
\* C6: the index holds as many vectors as article_ids has entries, position i
\* of both belongs to the same article, and an add_articles() that raised
\* left both as they were.
C6_ParallelSequences ==
    /\ Len(vectors) = Len(article_ids)
    /\ \A i \in 1..Len(vectors) : vectors[i].of = article_ids[i]
    /\ (result.call = "add_articles" /\ result.raised) => TheIndex = result.before

\* C7: search_similar(query, k) with k above the number n of stored vectors
\* raises nothing and returns the n stored identifiers, each once.
C7_SearchClipsK ==
    (/\ result.call = "search_similar"
     /\ Len(result.query) = VECTOR_DIMENSION
     /\ Len(vectors) = Len(article_ids)
     /\ result.k > Len(vectors)) =>
        /\ ~result.raised
        /\ Len(result.out.value) = Len(vectors)
        /\ \A i \in 1..Len(article_ids) :
              Cardinality({j \in 1..Len(result.out.value) :
                              result.out.value[j] = article_ids[i]})
              = Cardinality({j \in 1..Len(article_ids) : article_ids[j] = article_ids[i]})

\* C17: search_similar(query, k) with k at most the number n of stored
\* vectors returns k different stored identifiers, those of k stored vectors
\* in order of non-decreasing distance to the query, no vector left out being
\* nearer than one taken; a query equal to the vector of x alone gives x first.
C17_NearestFirst ==
    (/\ result.call = "search_similar"
     /\ Len(result.query) = VECTOR_DIMENSION
     /\ result.k <= Len(vectors)) =>
        /\ ~result.raised
        /\ LET out == result.out.value
               n == Len(vectors)
               d(p) == SqDist(vectors[p].vec, result.query)
           IN  /\ Len(out) = result.k
               /\ \A i \in 1..Len(out), j \in 1..Len(out) : i # j => out[i] # out[j]
               /\ \E p \in [1..Len(out) -> 1..n] :
                     /\ \A i \in 1..Len(out) : vectors[p[i]].of = out[i]
                     /\ \A i \in 1..Len(out), j \in 1..Len(out) :
                           i < j => p[i] # p[j] /\ d(p[i]) <= d(p[j])
                     /\ \A q \in 1..n :
                           (\A i \in 1..Len(out) : p[i] # q) =>
                               \A i \in 1..Len(out) : d(p[i]) <= d(q)
               /\ \A x \in 1..n :
                     (/\ vectors[x].vec = result.query
                      /\ \A y \in 1..n : y # x => vectors[y].vec # result.query)
                     => out[1] = vectors[x].of

\* C9: what Recommender.get_similar_articles(q, corpus, k) returns holds no
\* article whose id is q and at most k articles.
C9_RecommenderExclusion ==
    (result.call = "get_similar_articles" /\ ~result.raised) =>
        /\ \A i \in 1..Len(result.out.value) : result.out.value[i].id # result.article_id
        /\ Len(result.out.value) <= result.k

\* The index returned the query id among k + 1 ids, all of the corpus
C9_Witness ==
    /\ result.call = "get_similar_articles" /\ ~result.raised
    /\ result.k = 1
    /\ Len(result.out.value) = 1
    /\ Len(vectors) >= 2
    /\ \E i \in 1..Len(article_ids) : article_ids[i] = result.article_id

\* C10: for a query id that no article of the corpus has,
\* Recommender.get_similar_articles returns an empty list, raises nothing and
\* calls neither the embedding collaborator nor the vector index.
C10_RecommenderUnknownId ==
    (/\ result.call = "get_similar_articles"
     /\ \A i \in 1..Len(result.articles) : result.articles[i].id # result.article_id) =>
        /\ ~result.raised
        /\ result.out.value = <<>>
        /\ result.out.embed_calls = 0
        /\ result.out.search_calls = 0

\* An unknown id asked of a non-empty corpus over a non-empty index
C10_Witness ==
    /\ result.call = "get_similar_articles"
    /\ result.articles # <<>>
    /\ \A i \in 1..Len(result.articles) : result.articles[i].id # result.article_id
    /\ vectors # <<>>
    /\ ~result.raised /\ result.out.value = <<>>

\* C22: what Recommender.get_similar_articles returns holds no article twice,
\* whatever the size of the index (below k + 1 included) and whatever k.
C22_RecommenderNoDuplicates ==
    (result.call = "get_similar_articles" /\ ~result.raised) =>
        \A i \in 1..Len(result.out.value), j \in 1..Len(result.out.value) :
            i # j => result.out.value[i].id # result.out.value[j].id

\* ------------------------------------------------- claims about the stores
\* C1: when sync_raw_processed() returns, the set of processed identifiers
\* equals the set of raw identifiers (the processed ones were a subset).
C1_SyncConverges ==
    (Idle /\ ret.kind = "sync") => get_processed_article_ids = get_raw_article_ids

\* C2: an identifier whose fetch cycle was killed after its raw record was
\* written and before its processed record was written has a processed
\* record once the next fetch_articles() or process_missing_articles() has
\* completed.
C2_CrashHealing ==
    (Idle /\ ret.kind \in {"fetch", "missing"}) =>
        \A o \in orphaned : Readable(proc, FileName(o.id))

\* C3: when process_missing_articles returns, every identifier that was
\* missing has a processed record with processed = true and a processing
\* timestamp, and with a processing_error when its load or enrichment failed.
C3_RepairFailurePath ==
    pc = "m_done" =>
        \A id \in missing_ids :
            /\ Readable(proc, FileName(id))
            /\ Has(proc[FileName(id)], "processed")
            /\ proc[FileName(id)].processed
            /\ Has(proc[FileName(id)], "processed_timestamp")
            /\ (id \in failed => Has(proc[FileName(id)], "processing_error"))

\* C4: when a feed entry whose (title, published) was ingested before has
\* been ingested again, the raw and the processed directory hold the files
\* they held before, one file per directory is named by the entry's
\* identifier, and it holds what this ingestion wrote.
C4_IdempotentIngestion ==
    (op = "fetch" /\ pc = "ingested" /\ before.again) =>
        /\ DOMAIN raw = before.raw
        /\ DOMAIN proc = before.proc
        /\ Cardinality({f \in DOMAIN raw : StripExt(f) = article.id}) = 1
        /\ Cardinality({f \in DOMAIN proc : StripExt(f) = article.id}) = 1
        /\ raw[FileName(article.id)] = article
        /\ proc[FileName(article.id)] = processed_article

\* The same entry ingested in a second fetch cycle
C4_Witness ==
    /\ op = "fetch" /\ pc = "ingested" /\ before.again
    /\ now = 2
    /\ Pair(article.title, article.date) = Pair(EntryA.title, EntryA.published)

\* C13: within one fetch_articles() and within one sync_raw_processed(),
\* _process_article runs at most once for an article identifier.
C13_OneAttemptPerCycle ==
    op \in {"fetch", "sync"} => \A id \in DOMAIN attempts : attempts[id] <= 1

\* C14: under normal operation (no kill: every raw record has the processed
\* record a completed fetch cycle wrote) process_unprocessed_articles
\* re-enriches no article and returns 0.
C14_FlagRepairFindsNothing ==
    (pc = "u_done" /\ crashes = 0) =>
        /\ processed_count = 0
        /\ DOMAIN attempts = {}

\* C15: a processed record about to be written over the stored processed
\* record of its identifier holds every field the stored record holds.
C15_AdditiveOnly ==
    (/\ pc \in {"processed", "m_processed", "u_processed"}
     /\ Readable(proc, FileName(processed_article.id))) =>
        DOMAIN proc[FileName(processed_article.id)] \subseteq DOMAIN processed_article

\* C18: every processed record has reading_time_minutes =
\* max(1, round(words / 200)) of its full_content, or of its content when it
\* has none, which is at least 1; entries with different titles and the same
\* published string have different identifiers.
C18_ReadingTime ==
    /\ \A f \in DOMAIN proc :
          Readable(proc, f) =>
              LET r == proc[f]
                  content == IF Has(r, "full_content") THEN r.full_content
                             ELSE r.content
              IN  /\ Has(r, "reading_time_minutes")
                  /\ r.reading_time_minutes
                       = Max(1, PyRound(WordCount(content), 200))
                  /\ r.reading_time_minutes >= 1
    /\ \A p \in ingested, q \in ingested :
          (p[1] # q[1] /\ p[2] = q[2]) =>
              generate_article_id(p[1], p[2]) # generate_article_id(q[1], q[2])

\* Two entries published at the same time under two titles, both processed;
\* one of 1.5 times 200 words, one of none
C18_Witness ==
    LET fa == FileName(generate_article_id(EntryA.title, EntryA.published))
        fc == FileName(generate_article_id(EntryC.title, EntryC.published))
    IN  /\ Readable(proc, fa) /\ Readable(proc, fc)
        /\ proc[fa].date = proc[fc].date
        /\ proc[fa].title # proc[fc].title
        /\ proc[fa].reading_time_minutes = 2
        /\ proc[fc].reading_time_minutes = 1

\* C20: no step of process_missing_articles, process_unprocessed_articles or
\* sync_raw_processed changes the raw directory, and every raw record is the
\* article as fetch_articles built it: processed = false and none of the
\* fields the enrichment adds.
C20_RawUnmodified ==
    [][/\ (\/ op' \in {"missing", "unprocessed", "sync"}
           \/ op \in {"missing", "unprocessed", "sync"}
           \/ pc \in {"m_loop", "m_loaded", "m_processed", "m_proc_open", "m_done",
                       "u_loop", "u_processed", "u_proc_open", "u_done"})
          => raw' = raw
       /\ \A f \in DOMAIN raw' :
             Readable(raw', f) =>
                 /\ raw'[f].processed = FALSE
                 /\ DOMAIN raw'[f] \cap {"full_content", "domain", "summary",
                                         "reading_time_minutes",
                                         "processed_timestamp",
                                         "processing_error"} = {}]_vars

\* sync_raw_processed has enriched and saved a raw article
C20_Witness ==
    /\ op = "sync" /\ pc = "u_done"
    /\ processed_count > 0
    /\ \E f \in DOMAIN raw : Readable(raw, f)

\* C21: no step of fetch_articles, process_missing_articles,
\* process_unprocessed_articles or sync_raw_processed, an article that fails
\* included, takes an identifier out of get_raw_article_ids() or out of
\* get_processed_article_ids().
C21_StoresOnlyGrow ==
    [][/\ ArticleIds(raw) \subseteq ArticleIds(raw')
       /\ ArticleIds(proc) \subseteq ArticleIds(proc')]_vars

\* A repair has ended with an article that failed to load, both stores
\* holding identifiers, the processed store that of another article
C21_Witness ==
    /\ pc = "m_done"
    /\ failed # {}
    /\ get_raw_article_ids # {}
    /\ get_processed_article_ids \ failed # {}
====
